---- MODULE Spec2Model ----
(***************************************************************************)
(* The tuple editor of traitsui/editors/tuple_editor.py:                   *)
(*   ToolkitEditorFactory  the configuration (types, cols, validation),    *)
(*   TupleStructure        one field f<i> (and, with validation, one flag  *)
(*                         invalid<i>) per tuple position, and the view,   *)
(*   SimpleEditor          owns the structure and the edited value.        *)
(* Python tuples are functions over 0 .. n-1, so that positions, i % cols  *)
(* and i % len_types read as in the source. Python lists that the code     *)
(* only appends to (types, content) are sequences; list index k is         *)
(* sequence index k + 1.                                                   *)
(***************************************************************************)
EXTENDS Integers, Sequences, FiniteSets

VARIABLES editor, ts, last

vars == <<editor, ts, last>>

(***************************************************************************)
(* Bounds of the model.                                                    *)
(***************************************************************************)
MaxFields == 2
MaxValue == 2
MaxCols == 3

Values == 0 .. MaxValue

\* The tuples of length n.
TuplesOf(n) == [0 .. (n - 1) -> Values]

\* Python's None.
None == "None"

\* hasattr(type, 'validation') is false.
NoAttr == "NoAttr"

(***************************************************************************)
(* Validation functions: predicates on the candidate tuple.                *)
(***************************************************************************)
Validations == {"Ascending", "NoZero"}

\* validation(new_value)
Call(validation, t) ==
    IF validation = "Ascending"
    THEN \A i \in DOMAIN t : \A j \in DOMAIN t : (i < j) => (t[i] <= t[j])
    ELSE \A i \in DOMAIN t : t[i] # 0

(***************************************************************************)
(* Trait types. factory.types is None (the default of the Any trait), a    *)
(* single type, or a sequence of types.                                    *)
(***************************************************************************)
Any == "Any"

TraitTypes == {"Int", "Str", Any}

NoTypes == [kind |-> "none", items |-> <<>>]

SingleType(t) == [kind |-> "single", items |-> <<t>>]

TypeList(s) == [kind |-> "seq", items |-> s]

\* isinstance(types, SequenceTypes)
IsSequence(types) == types.kind = "seq"

\* types is None
IsNone(types) == types.kind = "none"

(***************************************************************************)
(* TupleStructure.__init__, lines 182-185: the global validation function. *)
(* 'validation' is the local variable (it decides whether the invalid<i>   *)
(* traits are added), 'self_validation' is the attribute self.validation   *)
(* (it is what _field_changed and update_editor read); the attribute is    *)
(* assigned only inside the if, and defaults to None (Callable).           *)
(***************************************************************************)
ResolveValidation(factory_validation, handler_validation) ==
    IF handler_validation # NoAttr /\ factory_validation = None
    THEN [validation |-> handler_validation, self_validation |-> handler_validation]
    ELSE [validation |-> factory_validation, self_validation |-> None]

(***************************************************************************)
(* TupleStructure.__init__, lines 187-198: the field types. A types value  *)
(* that is still None at line 192 becomes the one-element list [None].     *)
(***************************************************************************)
ResolveTypes(factory_types, handler) ==
    LET types1 == IF IsNone(factory_types) /\ handler.kind = "BaseTuple"
                  THEN TypeList(handler.types)
                  ELSE factory_types
        types2 == IF ~IsSequence(types1)
                  THEN IF IsNone(types1) THEN <<None>> ELSE types1.items
                  ELSE types1.items
    IN  IF Len(types2) = 0 THEN <<Any>> ELSE types2

\* Line 201 without the cycling: positions past the list reuse its last entry.
TypeAt_clamped(types, i) == types[(IF i < Len(types) THEN i ELSE Len(types) - 1) + 1]

\* Line 201: type = types[i % len_types]
TypeAt(types, i) == types[(i % Len(types)) + 1]

(***************************************************************************)
(* Lines 200-224: the number of fields whose trait is added. Calling       *)
(* type(value, ...) with type None raises TypeError and ends construction. *)
(***************************************************************************)
RECURSIVE BuiltFrom(_, _, _)
BuiltFrom(types, i, n) ==
    IF i >= n THEN n
    ELSE IF TypeAt(types, i) = None THEN i
    ELSE BuiltFrom(types, i + 1, n)

(***************************************************************************)
(* Lines 231-240: the view's content after the items of fields 0 .. k-1.   *)
(***************************************************************************)
Item(i, invalid) == [kind |-> "Item", name |-> i, invalid |-> invalid, content |-> <<>>]

Group(content) == [kind |-> "Group", name |-> -1, invalid |-> FALSE, content |-> content]

\* Lines 233-240 with the single-column test off by one (cols <= 2).
AddItem_wide(content, i, cols, item) ==
    IF cols <= 2
    THEN Append(content, item)
    ELSE LET c == IF (i % cols) = 0 THEN Append(content, Group(<<>>)) ELSE content
         IN  [c EXCEPT ![Len(c)].content = Append(@, item)]

\* Lines 233-240: one pass of the loop body for field i.
AddItem(content, i, cols, item) ==
    IF cols <= 1
    THEN Append(content, item)
    ELSE LET c == IF (i % cols) = 0 THEN Append(content, Group(<<>>)) ELSE content
         IN  [c EXCEPT ![Len(c)].content = Append(@, item)]

RECURSIVE Layout(_, _, _)
Layout(k, cols, invalid) ==
    IF k = 0 THEN <<>>
    ELSE AddItem(Layout(k - 1, cols, invalid), k - 1, cols, Item(k - 1, invalid))

\* No invalid<i> trait was added (line 229).
NoFlags == [i \in {} |-> FALSE]

(***************************************************************************)
(* TupleStructure.__init__ as a whole.                                     *)
(***************************************************************************)
TupleStructure(e) ==
    LET v == ResolveValidation(e.factory.validation, e.handler.validation)
        types == ResolveTypes(e.factory.types, e.handler)
        n == Cardinality(DOMAIN e.value)
        built == BuiltFrom(types, 0, n)
        flagged == v.validation # None
    IN  [status |-> IF built = n THEN "ok" ELSE "TypeError",
         fields |-> n,
         validation |-> v.self_validation,
         types |-> types,
         ftypes |-> [i \in 0 .. (built - 1) |-> TypeAt(types, i)],
         f |-> [i \in 0 .. (built - 1) |-> e.value[i]],
         invalid |-> IF flagged THEN [i \in 0 .. (built - 1) |-> FALSE] ELSE NoFlags,
         content |-> Layout(built, e.factory.cols, flagged)]

\* Before SimpleEditor.init has run.
Unbuilt ==
    [status |-> "unbuilt", fields |-> 0, validation |-> None, types |-> <<>>,
     ftypes |-> NoFlags, f |-> NoFlags, invalid |-> NoFlags, content |-> <<>>]

(***************************************************************************)
(* The editor and its structure as one object graph: s.editor, s.ts.       *)
(***************************************************************************)

\* _field_changed without the commit of line 266.
_field_changed_held(s, index, new) ==
    IF new # s.editor.value[index]
    THEN LET new_value == s.ts.f
         IN  IF s.ts.validation # None
             THEN IF Call(s.ts.validation, new_value)
                  THEN [s EXCEPT !.editor.value = new_value,
                                 !.ts.invalid = [i \in 0 .. (s.ts.fields - 1) |-> FALSE]]
                  ELSE [s EXCEPT !.ts.invalid[index] = TRUE]
             ELSE s
    ELSE s

\* _field_changed without the flag of line 264.
_field_changed_unflagged(s, index, new) ==
    IF new # s.editor.value[index]
    THEN LET new_value == s.ts.f
         IN  IF s.ts.validation # None
             THEN IF Call(s.ts.validation, new_value)
                  THEN [s EXCEPT !.editor.value = new_value,
                                 !.ts.invalid = [i \in 0 .. (s.ts.fields - 1) |-> FALSE]]
                  ELSE s
             ELSE [s EXCEPT !.editor.value = new_value]
    ELSE s

(***************************************************************************)
(* TupleStructure._field_changed(name, old, new), index = int(name[1:]).   *)
(* new_value is the tuple of all current fields.                           *)
(***************************************************************************)
_field_changed(s, index, new) ==
    IF new # s.editor.value[index]
    THEN LET new_value == s.ts.f
         IN  IF s.ts.validation # None
             THEN IF Call(s.ts.validation, new_value)
                  THEN [s EXCEPT !.editor.value = new_value,
                                 !.ts.invalid = [i \in 0 .. (s.ts.fields - 1) |-> FALSE]]
                  ELSE [s EXCEPT !.ts.invalid[index] = TRUE]
             ELSE [s EXCEPT !.editor.value = new_value]
    ELSE s

(***************************************************************************)
(* setattr(ts, 'f<i>', value): the field traits are added with             *)
(* event='field' (line 223), so an assignment that changes the field       *)
(* fires _field_changed; an assignment of the value it holds fires nothing.*)
(***************************************************************************)
SetField(s, i, value) ==
    IF s.ts.f[i] = value
    THEN s
    ELSE _field_changed([s EXCEPT !.ts.f[i] = value], i, value)

(***************************************************************************)
(* SimpleEditor.update_editor: the loop over enumerate(self.value), from   *)
(* position i on. 'value' is the tuple the loop iterates over, read once   *)
(* when the loop starts.                                                   *)
(***************************************************************************)
RECURSIVE UpdateFrom(_, _, _)
UpdateFrom(s, value, i) ==
    IF i >= Cardinality(DOMAIN value)
    THEN s
    ELSE LET s1 == SetField(s, i, value[i])
             s2 == IF s1.ts.validation # None
                   THEN [s1 EXCEPT !.ts.invalid[i] = FALSE]
                   ELSE s1
         IN  UpdateFrom(s2, value, i + 1)

\* update_editor without lines 119-120: the fields are written, no flag is reset.
RECURSIVE WriteFieldsFrom(_, _, _)
WriteFieldsFrom(s, value, i) ==
    IF i >= Cardinality(DOMAIN value)
    THEN s
    ELSE WriteFieldsFrom(SetField(s, i, value[i]), value, i + 1)

update_editor_keeping_flags(s) == WriteFieldsFrom(s, s.editor.value, 0)

update_editor(s) == UpdateFrom(s, s.editor.value, 0)

\* The edited trait holds only tuples that its handler's validation accepts.
Accepts(handler, t) ==
    (handler.validation \in Validations) => Call(handler.validation, t)

(***************************************************************************)
(* Which branch of _field_changed the last field edit took.                *)
(***************************************************************************)
Outcome(s, index, new) ==
    IF new = s.editor.value[index] THEN "skipped"
    ELSE IF s.ts.validation = None THEN "committed"
    ELSE IF Call(s.ts.validation, [s.ts.f EXCEPT ![index] = new]) THEN "accepted"
    ELSE "rejected"

AnyInvalid(t) == \E i \in DOMAIN t.invalid : t.invalid[i]

\* The empty tuple.
Empty == [i \in {} |-> 0]

\* The latest operation on the form: the edited field and its new value, the
\* branch _field_changed took, the tuple assigned from outside, and whether
\* an invalid flag was set when the operation began.
NoOp == [op |-> "none", index |-> -1, new |-> -1, outcome |-> "none",
         value |-> Empty, flagged |-> FALSE]

(***************************************************************************)
(* The user edits field i of the form to the value new.                    *)
(***************************************************************************)
FieldEdit(i, new) ==
    /\ ts.status = "ok"
    /\ i \in DOMAIN ts.f
    /\ new # ts.f[i]
    /\ LET s == SetField([editor |-> editor, ts |-> ts], i, new)
       IN  /\ editor' = s.editor
           /\ ts' = s.ts
    /\ last' = [op |-> "edit", index |-> i, new |-> new,
                outcome |-> Outcome([editor |-> editor, ts |-> ts], i, new),
                value |-> Empty, flagged |-> AnyInvalid(ts)]

(***************************************************************************)
(* The edited trait is assigned a different tuple of the same length from  *)
(* outside the form (a validating tuple trait takes only tuples its own    *)
(* validation accepts); the host editor then calls update_editor.          *)
(***************************************************************************)
ExternalReplace(t) ==
    /\ ts.status = "ok"
    /\ t # editor.value
    /\ Accepts(editor.handler, t)
    /\ LET s == update_editor([editor |-> [editor EXCEPT !.value = t], ts |-> ts])
       IN  /\ editor' = s.editor
           /\ ts' = s.ts
    /\ last' = [op |-> "external", index |-> -1, new |-> -1, outcome |-> "none",
                value |-> t, flagged |-> AnyInvalid(ts)]

(***************************************************************************)
(* SimpleEditor.init: builds the structure.                                *)
(***************************************************************************)
init ==
    /\ ts.status = "unbuilt"
    /\ ts' = TupleStructure(editor)
    /\ UNCHANGED editor
    /\ last' = [NoOp EXCEPT !.op = "init"]

(***************************************************************************)
(* The editors the model builds.                                           *)
(***************************************************************************)
FactoryValidations == {None} \cup Validations

HandlerValidations == {NoAttr, None} \cup Validations

Cols == -1 .. MaxCols

TypeSeqs(n) == UNION {[1 .. k -> TraitTypes] : k \in 0 .. n}

FactoryTypes == {NoTypes} \cup {SingleType(t) : t \in TraitTypes}
                    \cup {TypeList(s) : s \in TypeSeqs(2)}

\* editor.value_trait.handler: a (validated) tuple trait, or some other trait.
Handlers(n) ==
    {[kind |-> "BaseTuple", types |-> s, validation |-> v] :
        s \in {[i \in 1 .. k |-> "Int"] : k \in {0, n}}, v \in HandlerValidations}
    \cup {[kind |-> "Other", types |-> <<>>, validation |-> NoAttr]}

(***************************************************************************)
(* Spec: the form in use. The initial state is the one SimpleEditor.init   *)
(* leaves, for a tuple trait edited with the default types and cols. The   *)
(* validation function is set on the factory, or on the handler, or on     *)
(* neither. (With both set the assignment to editor.value is also subject  *)
(* to the handler's own validation, which is not part of this file; that   *)
(* combination is built in SpecInit only.)                                 *)
(***************************************************************************)
Init ==
    /\ \E n \in 1 .. MaxFields :
       \E value \in TuplesOf(n) :
       \E fv \in FactoryValidations :
       \E hv \in HandlerValidations :
          /\ ~(fv \in Validations /\ hv \in Validations)
          /\ editor = [factory |-> [types |-> NoTypes, cols |-> 1, validation |-> fv],
                       handler |-> [kind |-> "BaseTuple",
                                    types |-> [i \in 1 .. n |-> "Int"],
                                    validation |-> hv],
                       value |-> value]
          /\ Accepts(editor.handler, value)
    /\ ts = TupleStructure(editor)
    /\ last = NoOp

Next ==
    \/ \E i \in 0 .. (MaxFields - 1) : \E new \in Values : FieldEdit(i, new)
    \/ \E t \in TuplesOf(Cardinality(DOMAIN editor.value)) : ExternalReplace(t)

Spec == Init /\ [][Next]_vars

(***************************************************************************)
(* SpecInit: construction alone, over every configuration of types, cols,  *)
(* handler and validation, and tuples of every length up to MaxFields + 1. *)
(***************************************************************************)
InitBuild ==
    /\ \E n \in 0 .. (MaxFields + 1) :
       \E fv \in FactoryValidations :
       \E ft \in FactoryTypes :
       \E cols \in Cols :
       \E h \in Handlers(n) :
          editor = [factory |-> [types |-> ft, cols |-> cols, validation |-> fv],
                    handler |-> h,
                    value |-> [i \in 0 .. (n - 1) |-> 0]]
    /\ ts = Unbuilt
    /\ last = NoOp

NextBuild == init

SpecInit == InitBuild /\ [][NextBuild]_vars

(***************************************************************************)
(* Properties.                                                             *)
(***************************************************************************)
Positions == 0 .. (MaxFields - 1)

Built == ts.status # "unbuilt"

NoneInvalid(t) == \A j \in DOMAIN t.invalid : ~t.invalid[j]

\* The validation function the configuration asks for: the factory's if it
\* is set, else the handler's.
Configured ==
    IF editor.factory.validation # None THEN editor.factory.validation
    ELSE IF editor.handler.validation \in Validations THEN editor.handler.validation
    ELSE None

\* C1: with a validation function configured, a field edit whose candidate
\* tuple (all current fields) fails validation leaves the owning value
\* unchanged, sets invalid flag i and leaves every other flag as it was.
C1_RejectedEditKeepsValue ==
    [][\A i \in Positions : \A new \in Values :
          (FieldEdit(i, new) /\ Configured # None /\ ~Call(Configured, ts'.f))
          => /\ editor'.value = editor.value
             /\ ts'.invalid[i] = TRUE
             /\ \A j \in DOMAIN ts.invalid : (j # i) => (ts'.invalid[j] = ts.invalid[j])]_vars

\* C2: with a validation function configured, a field edit whose candidate
\* tuple passes validation makes the owning value the candidate tuple and
\* leaves every invalid flag false, whatever flags were set before.
C2_AcceptedEditCommits ==
    [][\A i \in Positions : \A new \in Values :
          (FieldEdit(i, new) /\ Configured # None /\ Call(Configured, ts'.f))
          => /\ editor'.value = ts'.f
             /\ NoneInvalid(ts')]_vars

\* C3: a validation function set on the factory gates the commits of field
\* edits: no field edit sets the owning value to a tuple that function rejects.
C3_FactoryValidationGates ==
    [][\A i \in Positions : \A new \in Values :
          (FieldEdit(i, new) /\ editor.factory.validation # None
              /\ editor'.value # editor.value)
          => Call(editor.factory.validation, editor'.value)]_vars

\* C4: after an external replacement of the owning tuple, whatever the
\* fields and flags were, every field holds the new tuple's value at its
\* position, no invalid flag is set, and the owning value is still the tuple
\* that was supplied.
C4_ExternalReplaceOverwrites ==
    (last.op = "external") =>
        /\ ts.f = last.value
        /\ NoneInvalid(ts)
        /\ editor.value = last.value

\* C4 witness: an external replacement arrived while a flag was set.
C4_Witness ==
    /\ last.op = "external"
    /\ last.flagged
    /\ ts.f = last.value
    /\ DOMAIN ts.invalid # {}
    /\ NoneInvalid(ts)

\* C5: with no validation function on the factory or the handler, after any
\* field edit the owning value is the tuple of all current fields.
C5_NoValidationCommits ==
    (last.op = "edit" /\ Configured = None) => (editor.value = ts.f)

\* C5 witness: an unvalidated edit has been committed.
C5_Witness ==
    /\ last.op = "edit"
    /\ Configured = None
    /\ last.outcome = "committed"
    /\ editor.value[last.index] = last.new

\* The types the fallback order of C6 gives: the configured types, else the
\* tuple trait's declared types, else the wildcard.
FallbackTypes ==
    IF ~IsNone(editor.factory.types)
    THEN IF Len(editor.factory.types.items) > 0
         THEN editor.factory.types.items ELSE <<Any>>
    ELSE IF editor.handler.kind = "BaseTuple" /\ Len(editor.handler.types) > 0
         THEN editor.handler.types
         ELSE <<Any>>

\* C6: construction succeeds and builds field i with the type the fallback
\* order gives (configured types, else the tuple trait's types, else Any);
\* with no types configured and a trait that is not a tuple type every field
\* has the wildcard type.
C6_TypeFallback ==
    Built =>
        /\ ts.status = "ok"
        /\ \A i \in DOMAIN editor.value :
              /\ i \in DOMAIN ts.ftypes
              /\ ts.ftypes[i] = FallbackTypes[(i % Len(FallbackTypes)) + 1]

\* The rows of the layout: a grouped row is its items' positions, an item
\* placed directly in the content is a row of its own.
Rows == [r \in 1 .. Len(ts.content) |->
            IF ts.content[r].kind = "Group"
            THEN [k \in 1 .. Len(ts.content[r].content) |-> ts.content[r].content[k].name]
            ELSE <<ts.content[r].name>>]

RECURSIVE Flatten(_, _)
Flatten(rows, r) == IF r = 0 THEN <<>> ELSE Flatten(rows, r - 1) \o rows[r]

\* The layout holds the n positions once each, in order.
EntriesInOrder(n) ==
    LET all == Flatten(Rows, Len(Rows))
    IN  /\ Len(all) = n
        /\ \A k \in 1 .. n : all[k] = k - 1

\* ceil(n / c) for n >= 0 and c # 0.
CeilDiv(n, c) == IF c > 0 THEN (n + c - 1) \div c ELSE -(n \div (-c))

\* There are ceil(n / c) rows, each but the last of exactly c entries. (With
\* c = 0 the quotient is undefined; only the empty layout of the empty tuple
\* is then taken to agree.)
RowsOf(n, c) ==
    IF c = 0
    THEN n = 0 /\ Len(Rows) = 0
    ELSE /\ Len(Rows) = CeilDiv(n, c)
         /\ \A r \in 1 .. (Len(Rows) - 1) : Len(Rows[r]) = c

\* C7 as stated: for every length N and every column count C the layout
\* holds exactly N entries in position order in ceil(N/C) rows, each but
\* the last of C entries.
C7_LayoutAnyCols ==
    (ts.status = "ok") =>
        /\ EntriesInOrder(ts.fields)
        /\ RowsOf(ts.fields, editor.factory.cols)

\* C7 amended: that holds for every column count C >= 1; for C <= 0 the
\* layout is the single column of C = 1.
C7_LayoutPositiveCols ==
    (ts.status = "ok") =>
        /\ EntriesInOrder(ts.fields)
        /\ RowsOf(ts.fields, IF editor.factory.cols >= 1 THEN editor.factory.cols ELSE 1)

\* C7 witness: a grid whose last row is short.
C7_Witness ==
    /\ ts.status = "ok"
    /\ editor.factory.cols = 2
    /\ ts.fields = 3
    /\ Len(Rows) = 2
    /\ Rows[2] = <<2>>

\* C8: with k >= 1 types resolved (the configured sequence, or the tuple
\* trait's types when none is configured), field i is built with the type at
\* index i mod k; a single configured type is the type of every field.
C8_TypesCycle ==
    Built =>
        \A i \in DOMAIN ts.ftypes :
           LET ft == editor.factory.types
           IN  /\ (ft.kind = "single") => (ts.ftypes[i] = ft.items[1])
               /\ (ft.kind = "seq" /\ Len(ft.items) >= 1)
                     => (ts.ftypes[i] = ft.items[(i % Len(ft.items)) + 1])
               /\ (ft.kind = "none" /\ editor.handler.kind = "BaseTuple"
                      /\ Len(editor.handler.types) >= 1)
                     => (ts.ftypes[i] =
                            editor.handler.types[(i % Len(editor.handler.types)) + 1])

\* C8 witness: two different types for three fields; the third field wraps
\* to the first type.
C8_Witness ==
    /\ ts.status = "ok"
    /\ editor.factory.types.kind = "seq"
    /\ Len(editor.factory.types.items) = 2
    /\ editor.factory.types.items[1] # editor.factory.types.items[2]
    /\ ts.fields = 3
    /\ ts.ftypes[2] = editor.factory.types.items[1]

\* C9: with validation active, once the user has edited field i to the value
\* the owning tuple holds at position i, invalid flag i is false (the flag
\* tells that the latest edit of the field failed validation).
C9_FlagFollowsLastEdit ==
    (ts.validation # None /\ last.op = "edit"
        /\ editor.value[last.index] = last.new)
    => ~ts.invalid[last.index]

====
